---- MODULE Spec2Model ----
(***************************************************************************)
(* Model of the ATR trailing-stop strategies of the repository:            *)
(*   BS  = BuySellIndicatorStrategy (src/buy_sell_indicator_strategy.py)   *)
(*   UT  = UtBotStrategy            (src/ut_bot_strategy.py)               *)
(*   EMA = EmaMaCrossoverStrategy   (src/ema_ma_crossover_strategy.py)     *)
(*                                                                         *)
(* Series are TLA+ sequences, so bar i of the source (0-based) is position *)
(* i+1 here.  A float is a record: a finite value (an integer; rounding is *)
(* not modelled), NaN, +Inf or -Inf, with IEEE-754 arithmetic and          *)
(* comparisons on the special values.                                      *)
(***************************************************************************)
EXTENDS Integers, Sequences, FiniteSets, TLC

\* ------------------------------------------------------------------ bounds
\* longest candle series run through a whole strategy (indicators, entry, exit)
MaxLen == 3
\* longest series handed to a trailing-stop engine called on its own
MaxEngineLen == 2
\* longest series of finite sources and positive margins run through a strategy
MaxAltLen == 4
\* finite source / margin values range over -MaxNeg .. MaxVal
MaxVal == 2
MaxNeg == 1

\* ------------------------------------------------------------------ floats
Fin(n) == [k |-> "fin", v |-> n]
NaN == [k |-> "nan", v |-> 0]
PInf == [k |-> "inf", v |-> 1]
NInf == [k |-> "inf", v |-> -1]

IsNaN(x) == x.k = "nan"
IsFinite(x) == x.k = "fin"

\* IEEE addition: NaN is contagious, Inf + (-Inf) = NaN
Add(x, y) ==
    IF IsNaN(x) \/ IsNaN(y) THEN NaN
    ELSE IF IsFinite(x) /\ IsFinite(y) THEN Fin(x.v + y.v)
    ELSE IF IsFinite(x) THEN y
    ELSE IF IsFinite(y) THEN x
    ELSE IF x.v = y.v THEN x
    ELSE NaN

Neg(x) == IF IsNaN(x) THEN NaN ELSE [k |-> x.k, v |-> 0 - x.v]

Sub(x, y) == Add(x, Neg(y))

\* IEEE ordered comparisons: every comparison with a NaN operand is false
Gt(x, y) ==
    IF IsNaN(x) \/ IsNaN(y) THEN FALSE
    ELSE IF IsFinite(x) /\ IsFinite(y) THEN x.v > y.v
    ELSE IF IsFinite(x) THEN y = NInf
    ELSE IF IsFinite(y) THEN x = PInf
    ELSE x = PInf /\ y = NInf

Lt(x, y) == Gt(y, x)

Ge(x, y) == ~IsNaN(x) /\ ~IsNaN(y) /\ ~Gt(y, x)

Le(x, y) == Ge(y, x)

\* Python's built-in max(a, b) / min(a, b) on floats: the second argument is
\* taken only when it compares strictly greater / smaller, so a NaN second
\* argument is dropped.
PyMaxDropsFloor(a, b) == b

PyMax(a, b) == IF Gt(b, a) THEN b ELSE a

PyMinDropsCeiling(a, b) == b

PyMin(a, b) == IF Lt(b, a) THEN b ELSE a

FiniteVals == {Fin(n) : n \in (0 - MaxNeg)..MaxVal}
\* values of a source bar / a noise margin handed to an engine called on its own
SrcVals == FiniteVals \cup {NaN, PInf, NInf}
MarginVals == FiniteVals \cup {NaN, PInf}
\* values of a source bar / a noise margin of a series run through a strategy
PipeSrcVals == {Fin(0 - 1), Fin(0), Fin(1), Fin(2), NaN}
PipeMarginVals == {Fin(0 - 1), Fin(0), Fin(1), NaN}
\* finite source values / positive noise margins
AltSrcVals == {Fin(0 - 1), Fin(0), Fin(1), Fin(2), Fin(3)}
AltMarginVals == {Fin(1), Fin(2)}

Min2(a, b) == IF a < b THEN a ELSE b

\* ------------------------------------------------- trailing-stop recurrence
\* One iteration of the loop of BS._compute_trailing_stop: the value written
\* to stop_values[i], given the stops written so far.
BS_stop_at_InitSubtracts(stop_values, src, nloss, i) ==
    LET current_src == src[i]
        current_nloss == nloss[i]
    IN  IF i = 1 \/ IsNaN(stop_values[i - 1])
        THEN Sub(current_src, current_nloss)
        ELSE LET prev_stop == stop_values[i - 1]
                 prev_src == src[i - 1]
             IN  IF Gt(current_src, prev_stop) /\ Gt(prev_src, prev_stop)
                 THEN PyMax(prev_stop, Sub(current_src, current_nloss))
                 ELSE IF Lt(current_src, prev_stop) /\ Lt(prev_src, prev_stop)
                 THEN PyMin(prev_stop, Add(current_src, current_nloss))
                 ELSE IF Gt(current_src, prev_stop)
                 THEN Sub(current_src, current_nloss)
                 ELSE Add(current_src, current_nloss)

BS_stop_at_NonStrictUptrend(stop_values, src, nloss, i) ==
    LET current_src == src[i]
        current_nloss == nloss[i]
    IN  IF i = 1 \/ IsNaN(stop_values[i - 1])
        THEN Add(current_src, current_nloss)
        ELSE LET prev_stop == stop_values[i - 1]
                 prev_src == src[i - 1]
             IN  IF Ge(current_src, prev_stop) /\ Ge(prev_src, prev_stop)
                 THEN PyMax(prev_stop, Sub(current_src, current_nloss))
                 ELSE IF Lt(current_src, prev_stop) /\ Lt(prev_src, prev_stop)
                 THEN PyMin(prev_stop, Add(current_src, current_nloss))
                 ELSE IF Gt(current_src, prev_stop)
                 THEN Sub(current_src, current_nloss)
                 ELSE Add(current_src, current_nloss)

BS_stop_at(stop_values, src, nloss, i) ==
    LET current_src == src[i]
        current_nloss == nloss[i]
    IN  IF i = 1 \/ IsNaN(stop_values[i - 1])
        THEN Add(current_src, current_nloss)
        ELSE LET prev_stop == stop_values[i - 1]
                 prev_src == src[i - 1]
             IN  IF Gt(current_src, prev_stop) /\ Gt(prev_src, prev_stop)
                 THEN PyMax(prev_stop, Sub(current_src, current_nloss))
                 ELSE IF Lt(current_src, prev_stop) /\ Lt(prev_src, prev_stop)
                 THEN PyMin(prev_stop, Add(current_src, current_nloss))
                 ELSE IF Gt(current_src, prev_stop)
                 THEN Sub(current_src, current_nloss)
                 ELSE Add(current_src, current_nloss)

\* the first n iterations of the loop
RECURSIVE BS_stop_prefix(_, _, _)
BS_stop_prefix(src, nloss, n) ==
    IF n = 0 THEN <<>>
    ELSE LET before == BS_stop_prefix(src, nloss, n - 1)
         IN  Append(before, BS_stop_at(before, src, nloss, n))

\* BS._compute_trailing_stop: the loop runs over len(src) and reads
\* nloss.iat[i], which raises IndexError once i reaches len(nloss); a longer
\* nloss is read only up to len(src).
BS_compute_trailing_stop(src, nloss) ==
    IF Len(nloss) < Len(src)
    THEN [error |-> "IndexError", stop |-> <<>>]
    ELSE [error |-> "none", stop |-> BS_stop_prefix(src, nloss, Len(src))]

\* One iteration of the loop of UT._ut_trailing_stop.
UT_stop_at_TieGoesUp(values, src, nloss, i) ==
    LET price == src[i]
        prev_stop == IF i > 1 THEN values[i - 1] ELSE Fin(0)
        prev_src == IF i > 1 THEN src[i - 1] ELSE src[i]
    IN  IF ~IsFinite(price) THEN prev_stop
        ELSE LET loss == IF ~IsFinite(nloss[i]) THEN Fin(0) ELSE nloss[i]
             IN  IF Gt(price, prev_stop) /\ Gt(prev_src, prev_stop)
                 THEN PyMax(prev_stop, Sub(price, loss))
                 ELSE IF Lt(price, prev_stop) /\ Lt(prev_src, prev_stop)
                 THEN PyMin(prev_stop, Add(price, loss))
                 ELSE IF Ge(price, prev_stop)
                 THEN Sub(price, loss)
                 ELSE Add(price, loss)

UT_stop_at(values, src, nloss, i) ==
    LET price == src[i]
        prev_stop == IF i > 1 THEN values[i - 1] ELSE Fin(0)
        prev_src == IF i > 1 THEN src[i - 1] ELSE src[i]
    IN  IF ~IsFinite(price) THEN prev_stop
        ELSE LET loss == IF ~IsFinite(nloss[i]) THEN Fin(0) ELSE nloss[i]
             IN  IF Gt(price, prev_stop) /\ Gt(prev_src, prev_stop)
                 THEN PyMax(prev_stop, Sub(price, loss))
                 ELSE IF Lt(price, prev_stop) /\ Lt(prev_src, prev_stop)
                 THEN PyMin(prev_stop, Add(price, loss))
                 ELSE IF Gt(price, prev_stop)
                 THEN Sub(price, loss)
                 ELSE Add(price, loss)

RECURSIVE UT_stop_prefix(_, _, _)
UT_stop_prefix(src, nloss, n) ==
    IF n = 0 THEN <<>>
    ELSE LET before == UT_stop_prefix(src, nloss, n - 1)
         IN  Append(before, UT_stop_at(before, src, nloss, n))

\* UT._ut_trailing_stop: the buffer is np.zeros(len(src)) and the loop runs
\* over zip(src, nloss), so it stops at the shorter series and leaves the
\* remaining entries of the buffer at 0.0.
UT_ut_trailing_stop(src, nloss) ==
    LET n == Min2(Len(src), Len(nloss))
        filled == UT_stop_prefix(src, nloss, n)
    IN  [error |-> "none",
         stop |-> [i \in 1..Len(src) |-> IF i <= n THEN filled[i] ELSE Fin(0)]]

\* ------------------------------------------------------- crossover detector
\* Series.shift(1): the previous bar's value, NaN at the first bar
ShiftZeroFill(s, i) == IF i = 1 THEN Fin(0) ELSE s[i - 1]

Shift(s, i) == IF i = 1 THEN NaN ELSE s[i - 1]

\* (cond_now & cond_prev).fillna(False): the conjunction of two boolean
\* series has nothing to fill
BS_crossed_above(series_a, series_b) ==
    [i \in 1..Len(series_a) |->
        Gt(series_a[i], series_b[i]) /\ Le(Shift(series_a, i), Shift(series_b, i))]

BS_crossed_below(series_a, series_b) ==
    [i \in 1..Len(series_a) |->
        Lt(series_a[i], series_b[i]) /\ Ge(Shift(series_a, i), Shift(series_b, i))]

UT_crossover(a, b) ==
    [i \in 1..Len(a) |-> Gt(a[i], b[i]) /\ Le(Shift(a, i), Shift(b, i))]

UT_crossunder(a, b) ==
    [i \in 1..Len(a) |-> Lt(a[i], b[i]) /\ Ge(Shift(a, i), Shift(b, i))]

EMA_crossed_above(a, b) ==
    [i \in 1..Len(a) |-> Gt(a[i], b[i]) /\ Le(Shift(a, i), Shift(b, i))]

EMA_crossed_below(a, b) ==
    [i \in 1..Len(a) |-> Lt(a[i], b[i]) /\ Ge(Shift(a, i), Shift(b, i))]

\* ---------------------------------------------------------- signal composer
\* BS._ema with period 1: the series itself, as floats
BS_ema1(series) == series

\* df["buy_signal"] = df["barbuy"] & df["above"]
BS_buy_signal(src, stop) ==
    LET above_ == BS_crossed_above(BS_ema1(src), stop)
    IN  [i \in 1..Len(src) |-> Gt(src[i], stop[i]) /\ above_[i]]

BS_sell_signal_CopiesBuy(src, stop) ==
    LET above_ == BS_crossed_above(BS_ema1(src), stop)
    IN  [i \in 1..Len(src) |-> Gt(src[i], stop[i]) /\ above_[i]]

\* df["sell_signal"] = df["barsell"] & df["below"]
BS_sell_signal(src, stop) ==
    LET below_ == BS_crossed_below(BS_ema1(src), stop)
    IN  [i \in 1..Len(src) |-> Lt(src[i], stop[i]) /\ below_[i]]

UT_ut_buy(source, stop) ==
    LET crossover == UT_crossover(source, stop)
    IN  [i \in 1..Len(source) |-> Gt(source[i], stop[i]) /\ crossover[i]]

UT_ut_sell(source, stop) ==
    LET crossunder == UT_crossunder(source, stop)
    IN  [i \in 1..Len(source) |-> Lt(source[i], stop[i]) /\ crossunder[i]]

\* df.loc[mask, column] = value
SetWhere(mask, column, value) ==
    [i \in 1..Len(column) |-> IF mask[i] THEN value ELSE column[i]]

\* the columns written by BS.populate_entry_trend, in the order of its two
\* assignments
BS_entry_columns(buy_signal, sell_signal, cols) ==
    [enter_long |-> SetWhere(buy_signal, cols.enter_long, Fin(1)),
     enter_short |-> SetWhere(sell_signal, cols.enter_short, Fin(1)),
     enter_tag |-> SetWhere(sell_signal,
                            SetWhere(buy_signal, cols.enter_tag, "long"), "short")]

BS_exit_columns_MasksSwapped(buy_signal, sell_signal, cols) ==
    [exit_long |-> SetWhere(buy_signal, cols.exit_long, Fin(1)),
     exit_short |-> SetWhere(sell_signal, cols.exit_short, Fin(1)),
     exit_tag |-> SetWhere(sell_signal,
                           SetWhere(buy_signal, cols.exit_tag, "exit_long_signal"),
                           "exit_short_signal")]

\* the columns written by BS.populate_exit_trend
BS_exit_columns(buy_signal, sell_signal, cols) ==
    [exit_long |-> SetWhere(sell_signal, cols.exit_long, Fin(1)),
     exit_short |-> SetWhere(buy_signal, cols.exit_short, Fin(1)),
     exit_tag |-> SetWhere(buy_signal,
                           SetWhere(sell_signal, cols.exit_tag, "exit_long_signal"),
                           "exit_short_signal")]

\* UT.populate_entry_trend / populate_exit_trend write no tag
UT_entry_columns(ut_buy, ut_sell, cols) ==
    [enter_long |-> SetWhere(ut_buy, cols.enter_long, Fin(1)),
     enter_short |-> SetWhere(ut_sell, cols.enter_short, Fin(1)),
     enter_tag |-> cols.enter_tag]

UT_exit_columns(ut_buy, ut_sell, cols) ==
    [exit_long |-> SetWhere(ut_sell, cols.exit_long, Fin(1)),
     exit_short |-> SetWhere(ut_buy, cols.exit_short, Fin(1)),
     exit_tag |-> cols.exit_tag]

\* ------------------------------------------------------------------- state
VARIABLES
    pc,             \* how far the run has come
    strategy,       \* the class whose code is running: "BS", "UT" or "EMA"
    src,            \* the source series (df["src"], df["ut_source"]; series A)
    nloss,          \* the noise margin (df["nloss"], df["ut_nloss"]; series B)
    error,          \* the exception the call ended in, "none" if it returned
    trailing_stop,  \* df["trailing_stop"], df["ut_trailing_stop"]
    above,          \* df["above"], df["ut_crossover"]
    below,          \* df["below"], df["ut_crossunder"]
    buy,            \* df["buy_signal"], df["ut_buy"]
    sell,           \* df["sell_signal"], df["ut_sell"]
    directives,     \* the enter_* and exit_* columns of the dataframe
    high,           \* df["high"]
    low,            \* df["low"]
    close,          \* df["close"]
    true_range,     \* the true range (true_range, tr, df["tr"])
    atr             \* the smoothed volatility (the ATR)

vars == <<pc, strategy, src, nloss, error, trailing_stop, above, below, buy, sell,
          directives, high, low, close, true_range, atr>>

ohlc == <<high, low, close, true_range, atr>>

\* a column that does not exist yet reads as missing at every bar
Missing(n, v) == [i \in 1..n |-> v]

NoDirectives(n) ==
    [enter_long |-> Missing(n, NaN), enter_short |-> Missing(n, NaN),
     enter_tag |-> Missing(n, "NaN"),
     exit_long |-> Missing(n, NaN), exit_short |-> Missing(n, NaN),
     exit_tag |-> Missing(n, "NaN")]

Blank ==
    /\ pc = "start"
    /\ strategy = "none"
    /\ error = "none"
    /\ trailing_stop = <<>>
    /\ above = <<>>
    /\ below = <<>>
    /\ buy = <<>>
    /\ sell = <<>>
    /\ directives = NoDirectives(Len(src))
    /\ true_range = <<>>
    /\ atr = <<>>

NoCandles == high = <<>> /\ low = <<>> /\ close = <<>>

\* a candle series of up to MaxLen bars, source and margin aligned
Init ==
    /\ \E n \in 0..MaxLen :
         /\ src \in [1..n -> PipeSrcVals]
         /\ nloss \in [1..n -> PipeMarginVals]
    /\ NoCandles
    /\ Blank

\* BS.populate_indicators, from the trailing stop on
BS_populate_indicators ==
    /\ pc = "start"
    /\ LET r == BS_compute_trailing_stop(src, nloss)
       IN  /\ error' = r.error
           /\ trailing_stop' = r.stop
           /\ above' = BS_crossed_above(BS_ema1(src), r.stop)
           /\ below' = BS_crossed_below(BS_ema1(src), r.stop)
           /\ buy' = BS_buy_signal(src, r.stop)
           /\ sell' = BS_sell_signal(src, r.stop)
    /\ strategy' = "BS"
    /\ pc' = "indicators"
    /\ UNCHANGED <<src, nloss, directives, ohlc>>

BS_populate_entry_trend ==
    /\ pc = "indicators"
    /\ strategy = "BS"
    /\ directives' = [c \in DOMAIN directives |->
                        IF c \in {"enter_long", "enter_short", "enter_tag"}
                        THEN BS_entry_columns(buy, sell, directives)[c]
                        ELSE directives[c]]
    /\ pc' = "entry"
    /\ UNCHANGED <<strategy, src, nloss, error, trailing_stop, above, below, buy, sell, ohlc>>

BS_populate_exit_trend ==
    /\ pc = "entry"
    /\ strategy = "BS"
    /\ directives' = [c \in DOMAIN directives |->
                        IF c \in {"exit_long", "exit_short", "exit_tag"}
                        THEN BS_exit_columns(buy, sell, directives)[c]
                        ELSE directives[c]]
    /\ pc' = "exit"
    /\ UNCHANGED <<strategy, src, nloss, error, trailing_stop, above, below, buy, sell, ohlc>>

\* UT.populate_indicators, from the trailing stop on
UT_populate_indicators ==
    /\ pc = "start"
    /\ LET r == UT_ut_trailing_stop(src, nloss)
       IN  /\ error' = r.error
           /\ trailing_stop' = r.stop
           /\ above' = UT_crossover(src, r.stop)
           /\ below' = UT_crossunder(src, r.stop)
           /\ buy' = UT_ut_buy(src, r.stop)
           /\ sell' = UT_ut_sell(src, r.stop)
    /\ strategy' = "UT"
    /\ pc' = "indicators"
    /\ UNCHANGED <<src, nloss, directives, ohlc>>

UT_populate_entry_trend ==
    /\ pc = "indicators"
    /\ strategy = "UT"
    /\ directives' = [c \in DOMAIN directives |->
                        IF c \in {"enter_long", "enter_short", "enter_tag"}
                        THEN UT_entry_columns(buy, sell, directives)[c]
                        ELSE directives[c]]
    /\ pc' = "entry"
    /\ UNCHANGED <<strategy, src, nloss, error, trailing_stop, above, below, buy, sell, ohlc>>

UT_populate_exit_trend ==
    /\ pc = "entry"
    /\ strategy = "UT"
    /\ directives' = [c \in DOMAIN directives |->
                        IF c \in {"exit_long", "exit_short", "exit_tag"}
                        THEN UT_exit_columns(buy, sell, directives)[c]
                        ELSE directives[c]]
    /\ pc' = "exit"
    /\ UNCHANGED <<strategy, src, nloss, error, trailing_stop, above, below, buy, sell, ohlc>>

\* EMA._crossed_above / _crossed_below applied to a pair of series A, B
EMA_crossed ==
    /\ pc = "start"
    /\ above' = EMA_crossed_above(src, nloss)
    /\ below' = EMA_crossed_below(src, nloss)
    /\ strategy' = "EMA"
    /\ pc' = "crossed"
    /\ UNCHANGED <<src, nloss, error, trailing_stop, buy, sell, directives, ohlc>>

Next ==
    \/ BS_populate_indicators
    \/ BS_populate_entry_trend
    \/ BS_populate_exit_trend
    \/ UT_populate_indicators
    \/ UT_populate_entry_trend
    \/ UT_populate_exit_trend
    \/ EMA_crossed

Spec == Init /\ [][Next]_vars

\* a candle series of up to MaxAltLen bars whose sources are finite and whose
\* margins are positive (an ATR of moving prices times a positive key_value)
InitAlt ==
    /\ \E n \in 0..MaxAltLen :
         /\ src \in [1..n -> AltSrcVals]
         /\ nloss \in [1..n -> AltMarginVals]
    /\ NoCandles
    /\ Blank

SpecAlt == InitAlt /\ [][Next]_vars

\* ------------------------------------------- the engines called on their own
\* aligned source and margin of up to MaxEngineLen bars
InitEngine ==
    /\ \E n \in 0..MaxEngineLen :
         /\ src \in [1..n -> SrcVals]
         /\ nloss \in [1..n -> MarginVals]
    /\ NoCandles
    /\ Blank

Call_compute_trailing_stop ==
    /\ pc = "start"
    /\ LET r == BS_compute_trailing_stop(src, nloss)
       IN  error' = r.error /\ trailing_stop' = r.stop
    /\ strategy' = "BS"
    /\ pc' = "returned"
    /\ UNCHANGED <<src, nloss, above, below, buy, sell, directives, ohlc>>

Call_ut_trailing_stop ==
    /\ pc = "start"
    /\ LET r == UT_ut_trailing_stop(src, nloss)
       IN  error' = r.error /\ trailing_stop' = r.stop
    /\ strategy' = "UT"
    /\ pc' = "returned"
    /\ UNCHANGED <<src, nloss, above, below, buy, sell, directives, ohlc>>

NextEngine == Call_compute_trailing_stop \/ Call_ut_trailing_stop

SpecEngine == InitEngine /\ [][NextEngine]_vars

\* source and margin of independent lengths
LenVals == {Fin(n) : n \in 1..MaxVal}

InitLen ==
    /\ \E n \in 0..MaxEngineLen, m \in 0..MaxEngineLen :
         /\ src \in [1..n -> LenVals]
         /\ nloss \in [1..m -> LenVals]
    /\ NoCandles
    /\ Blank

SpecLen == InitLen /\ [][NextEngine]_vars

\* ------------------------------------------------ range & volatility (ATR)
\* parameters of the strategies
BS_atr_period == 10
UT_atr_period == 10
EMA_atr_len == 14

\* Series.abs()
Abs(x) == IF IsFinite(x) THEN Fin(IF x.v < 0 THEN 0 - x.v ELSE x.v)
          ELSE IF IsNaN(x) THEN NaN ELSE PInf

\* np.maximum: a NaN operand makes the result NaN
NpMaximum(a, b) == IF IsNaN(a) \/ IsNaN(b) THEN NaN ELSE IF Gt(b, a) THEN b ELSE a

\* DataFrame.max(axis=1, skipna=True) over two columns: NaN entries are left
\* out, the result is NaN only when both are
SkipNaMax(a, b) == IF IsNaN(a) THEN b ELSE IF IsNaN(b) THEN a ELSE IF Gt(b, a) THEN b ELSE a

\* a smoothed value: the fraction num/den, or NaN
Rat(n, d) == [k |-> "fin", num |-> n, den |-> d]
RatNaN == [k |-> "nan", num |-> 0, den |-> 1]

\* Series.ewm(alpha=1/period, adjust=False).mean(): the first n values. The
\* average starts at the first value that is not NaN and is NaN before it;
\* a NaN after the start leaves the average where it is.
RECURSIVE Ewm(_, _, _)
Ewm(x, period, n) ==
    IF n = 0 THEN <<>>
    ELSE LET before == Ewm(x, period, n - 1)
             cur == x[n]
             weighted ==
                 IF n = 1 \/ before[n - 1].k = "nan"
                 THEN IF IsNaN(cur) THEN RatNaN ELSE Rat(cur.v, 1)
                 ELSE IF IsNaN(cur) THEN before[n - 1]
                 ELSE Rat((period - 1) * before[n - 1].num + cur.v * before[n - 1].den,
                          period * before[n - 1].den)
         IN  Append(before, weighted)

\* the true range of BS._atr: the row maximum of tr1, tr2, tr3 that skips NaN
BS_true_range(h, l, c) ==
    [i \in 1..Len(h) |->
        LET prev_close == Shift(c, i)
            tr1 == Sub(h[i], l[i])
            tr2 == Abs(Sub(h[i], prev_close))
            tr3 == Abs(Sub(l[i], prev_close))
        IN  SkipNaMax(SkipNaMax(tr1, tr2), tr3)]

\* fillna(method="bfill").fillna(0.0)
RECURSIVE Bfill(_, _)
Bfill(s, i) ==
    IF i > Len(s) THEN Rat(0, 1)
    ELSE IF s[i].k = "nan" THEN Bfill(s, i + 1)
    ELSE s[i]

BS_atr(h, l, c, period) ==
    LET p == IF period <= 1 THEN 1 ELSE period
        tr == BS_true_range(h, l, c)
        smoothed == Ewm(tr, p, Len(tr))
    IN  [i \in 1..Len(tr) |-> Bfill(smoothed, i)]

\* the true range of UT._atr: np.maximum.reduce over the three arrays
UT_true_range(h, l, c) ==
    [i \in 1..Len(h) |->
        LET high_low == Abs(Sub(h[i], l[i]))
            high_close == Abs(Sub(h[i], Shift(c, i)))
            low_close == Abs(Sub(l[i], Shift(c, i)))
        IN  NpMaximum(NpMaximum(high_low, high_close), low_close)]

UT_atr(h, l, c, period) ==
    LET tr == UT_true_range(h, l, c)
    IN  Ewm(tr, period, Len(tr))

\* df["tr"] of EMA.populate_indicators
EMA_true_range(h, l, c) ==
    [i \in 1..Len(h) |->
        LET tr1 == Abs(Sub(h[i], l[i]))
            tr2 == Abs(Sub(h[i], Shift(c, i)))
            tr3 == Abs(Sub(l[i], Shift(c, i)))
        IN  NpMaximum(NpMaximum(tr1, tr2), tr3)]

\* df["atr"] of EMA.populate_indicators
EMA_atr(tr) == Ewm(tr, EMA_atr_len, Len(tr))

\* prices of a candle
PriceVals == {Fin(n) : n \in 0..MaxVal}

\* a candle series of up to MaxEngineLen bars with finite prices
InitAtr ==
    /\ \E n \in 0..MaxEngineLen :
         /\ high \in [1..n -> PriceVals]
         /\ low \in [1..n -> PriceVals]
         /\ close \in [1..n -> PriceVals]
    /\ src = <<>>
    /\ nloss = <<>>
    /\ Blank

pipeline == <<src, nloss, error, trailing_stop, above, below, buy, sell, directives>>

\* df["atr"] = self._atr(df, atr_period) of BS.populate_indicators
BS_atr_call ==
    /\ pc = "start"
    /\ true_range' = BS_true_range(high, low, close)
    /\ atr' = BS_atr(high, low, close, BS_atr_period)
    /\ strategy' = "BS"
    /\ pc' = "atr"
    /\ UNCHANGED <<pipeline, high, low, close>>

\* atr = self._atr(df, self.atr_period) of UT.populate_indicators
UT_atr_call ==
    /\ pc = "start"
    /\ true_range' = UT_true_range(high, low, close)
    /\ atr' = UT_atr(high, low, close, UT_atr_period)
    /\ strategy' = "UT"
    /\ pc' = "atr"
    /\ UNCHANGED <<pipeline, high, low, close>>

\* the ATR lines of EMA.populate_indicators
EMA_atr_inline ==
    /\ pc = "start"
    /\ true_range' = EMA_true_range(high, low, close)
    /\ atr' = EMA_atr(EMA_true_range(high, low, close))
    /\ strategy' = "EMA"
    /\ pc' = "atr"
    /\ UNCHANGED <<pipeline, high, low, close>>

NextAtr == BS_atr_call \/ UT_atr_call \/ EMA_atr_inline

SpecAtr == InitAtr /\ [][NextAtr]_vars

\* ================================================================== claims
Bars == 1..Len(src)

\* C1 as stated: with a finite first source and a finite first margin, both
\* engines return stop[0] = source[0] + noise_margin[0].
C1_BothEnginesInitAtSourcePlusMargin ==
    (pc = "returned" /\ Len(src) >= 1 /\ IsFinite(src[1]) /\ IsFinite(nloss[1]))
        => trailing_stop[1] = Fin(src[1].v + nloss[1].v)

\* C1 amended: _compute_trailing_stop returns stop[0] = source[0] +
\* noise_margin[0]; _ut_trailing_stop runs the transition rule from a previous
\* stop of 0 with source[0] as previous source: max(0, source[0] - margin[0])
\* for a positive source[0], min(0, source[0] + margin[0]) for a negative one
\* and margin[0] for source[0] = 0.
C1_FirstStop ==
    (pc = "returned" /\ Len(src) >= 1 /\ IsFinite(src[1]) /\ IsFinite(nloss[1]))
        => LET s == src[1].v
               m == nloss[1].v
           IN  /\ strategy = "BS" => trailing_stop[1] = Fin(s + m)
               /\ strategy = "UT" =>
                    trailing_stop[1] =
                        IF s > 0 THEN Fin(IF s - m > 0 THEN s - m ELSE 0)
                        ELSE IF s < 0 THEN Fin(IF s + m < 0 THEN s + m ELSE 0)
                        ELSE Fin(m)

C1_Witness ==
    /\ pc = "returned"
    /\ strategy = "BS"
    /\ Len(src) >= 1
    /\ IsFinite(src[1]) /\ src[1].v < 0
    /\ IsFinite(nloss[1]) /\ nloss[1].v > 0
    /\ trailing_stop[1] = Fin(src[1].v + nloss[1].v)

\* C2: ratchet up. At every bar after the first, if the source and the
\* previous source are both above the previous stop, the stop is not below
\* the previous stop, whatever the margin.
C2_RatchetUp ==
    pc = "returned" =>
        \A i \in 2..Len(src) :
            (Gt(src[i], trailing_stop[i - 1]) /\ Gt(src[i - 1], trailing_stop[i - 1]))
                => Ge(trailing_stop[i], trailing_stop[i - 1])

\* a confirmed uptrend whose source minus margin lies below the previous stop
C2_Witness ==
    /\ pc = "returned"
    /\ \E i \in 2..Len(src) :
         /\ Gt(src[i], trailing_stop[i - 1])
         /\ Gt(src[i - 1], trailing_stop[i - 1])
         /\ Lt(Sub(src[i], nloss[i]), trailing_stop[i - 1])
         /\ trailing_stop[i] = trailing_stop[i - 1]

\* C3: ratchet down. At every bar after the first, if the source and the
\* previous source are both below the previous stop, the stop is not above
\* the previous stop, whatever the margin.
C3_RatchetDown ==
    pc = "returned" =>
        \A i \in 2..Len(src) :
            (Lt(src[i], trailing_stop[i - 1]) /\ Lt(src[i - 1], trailing_stop[i - 1]))
                => Le(trailing_stop[i], trailing_stop[i - 1])

\* a confirmed downtrend whose source plus margin lies above the previous stop
C3_Witness ==
    /\ pc = "returned"
    /\ \E i \in 2..Len(src) :
         /\ Lt(src[i], trailing_stop[i - 1])
         /\ Lt(src[i - 1], trailing_stop[i - 1])
         /\ Gt(Add(src[i], nloss[i]), trailing_stop[i - 1])
         /\ trailing_stop[i] = trailing_stop[i - 1]

\* C4: undefined-value guard. At every bar after the first whose source is
\* not finite while the previous stop is defined, the stop is the previous
\* stop, in both engines.
C4_NonFiniteSourceCarriesStop ==
    pc = "returned" =>
        \A i \in 2..Len(src) :
            (~IsFinite(src[i]) /\ ~IsNaN(trailing_stop[i - 1]))
                => trailing_stop[i] = trailing_stop[i - 1]

\* C5: when source and margin differ in length the call ends in an error and
\* returns no stop series.
C5_LengthMismatchFails ==
    (pc = "returned" /\ Len(src) # Len(nloss))
        => (error # "none" /\ trailing_stop = <<>>)

\* C6: no bar has buy and sell both true.
C6_BuySellExclusive ==
    pc \in {"indicators", "entry", "exit"} =>
        \A i \in Bars : ~(buy[i] /\ sell[i])

C6_Witness ==
    /\ pc = "indicators"
    /\ strategy = "BS"
    /\ \E i, j \in Bars : buy[i] /\ sell[j]

\* the second series handed to the crossover detector
SeriesB == IF strategy = "EMA" THEN nloss ELSE trailing_stop

\* C7: crossed_above and crossed_below are false at the first bar and at every
\* bar where A[i], B[i], A[i-1] or B[i-1] is NaN, in the three detectors.
C7_UndefinedOperandNoCross ==
    pc \in {"indicators", "crossed"} =>
        \A i \in Bars :
            (\/ i = 1
             \/ IsNaN(src[i]) \/ IsNaN(SeriesB[i])
             \/ IsNaN(src[i - 1]) \/ IsNaN(SeriesB[i - 1]))
                => (~above[i] /\ ~below[i])

\* a first bar with A below B, a cross above at the second bar and an
\* undefined A at the third
C7_Witness ==
    /\ pc = "crossed"
    /\ Len(src) = 3
    /\ Lt(src[1], nloss[1]) /\ ~below[1]
    /\ above[2]
    /\ IsNaN(src[3]) /\ ~above[3] /\ ~below[3]

\* C8: with finite prices the first true range is high[0] - low[0] and the
\* first volatility equals it, in each ATR implementation.
C8_FirstBarIsHighLowRange ==
    (pc = "atr" /\ Len(high) >= 1)
        => /\ true_range[1] = Fin(high[1].v - low[1].v)
           /\ atr[1] = Rat(high[1].v - low[1].v, 1)

\* C9: after populate_entry_trend and populate_exit_trend, enter_long and
\* exit_short are set exactly at the buy bars, enter_short and exit_long
\* exactly at the sell bars, a bar with neither signal has no directive and no
\* tag, and the tagged variant (BS) tags each signal bar with its signal.
C9_DirectiveMapping ==
    pc = "exit" =>
        \A i \in Bars :
            /\ (directives.enter_long[i] = Fin(1)) <=> buy[i]
            /\ (directives.exit_short[i] = Fin(1)) <=> buy[i]
            /\ (directives.enter_short[i] = Fin(1)) <=> sell[i]
            /\ (directives.exit_long[i] = Fin(1)) <=> sell[i]
            /\ (~buy[i] /\ ~sell[i]) =>
                 /\ directives.enter_long[i] = NaN /\ directives.enter_short[i] = NaN
                 /\ directives.exit_long[i] = NaN /\ directives.exit_short[i] = NaN
                 /\ directives.enter_tag[i] = "NaN" /\ directives.exit_tag[i] = "NaN"
            /\ (strategy = "BS" /\ buy[i]) =>
                 /\ directives.enter_tag[i] = "long"
                 /\ directives.exit_tag[i] = "exit_short_signal"
            /\ (strategy = "BS" /\ sell[i]) =>
                 /\ directives.enter_tag[i] = "short"
                 /\ directives.exit_tag[i] = "exit_long_signal"

C9_Witness ==
    /\ pc = "exit"
    /\ strategy = "BS"
    /\ \E i, j, n \in Bars :
         /\ buy[i] /\ directives.enter_tag[i] = "long"
         /\ sell[j] /\ directives.exit_tag[j] = "exit_long_signal"
         /\ ~buy[n] /\ ~sell[n]

\* C10: equality tie-break. At every bar after the first with a finite source
\* and margin, if the source equals the previous stop the new stop is source
\* plus margin, in both engines.
C10_EqualityTakesLastBranch ==
    pc = "returned" =>
        \A i \in 2..Len(src) :
            (IsFinite(src[i]) /\ IsFinite(nloss[i]) /\ src[i] = trailing_stop[i - 1])
                => trailing_stop[i] = Fin(src[i].v + nloss[i].v)

C10_Witness ==
    /\ pc = "returned"
    /\ strategy = "UT"
    /\ \E i \in 2..Len(src) :
         /\ IsFinite(src[i]) /\ IsFinite(nloss[i]) /\ nloss[i].v # 0
         /\ src[i] = trailing_stop[i - 1]
         /\ Gt(src[i - 1], trailing_stop[i - 1])
         /\ trailing_stop[i] = Fin(src[i].v + nloss[i].v)

\* every source finite, every margin finite and positive
FinitePositive ==
    \A i \in Bars : IsFinite(src[i]) /\ IsFinite(nloss[i]) /\ nloss[i].v > 0

====
